---- MODULE Spec2Model ----
(***************************************************************************)
(* Model of MunkiAdmin/Scripts/yaml_bridge.py: the conversion of a         *)
(* package-info document between YAML, property list and JSON.             *)
(*                                                                         *)
(* A document tree is a record [t, v, keys, vals]:                         *)
(*   t = "scalar": v is the scalar (the strings "null", "date" and         *)
(*                 "bytes" stand for None, a datetime and a bytes value,   *)
(*                 every other string is a str);                           *)
(*   t = "dict"  : keys is the insertion order of the Python dict and      *)
(*                 vals[i] is the value stored under keys[i];              *)
(*   t = "list"  : vals are the items.                                     *)
(* The text of an emitted or stored document is represented by its syntax  *)
(* tree, mappings in the order in which the text holds their keys.         *)
(***************************************************************************)
EXTENDS Integers, Sequences, FiniteSets, TLC

\* ------------------------------------------------------------------------
\* Bounds of the model
\* ------------------------------------------------------------------------
MaxKeys == 3          \* keys of a flat input mapping
MaxNestedKeys == 2    \* keys of a mapping nested in another node
MaxCore == 3          \* lines of a defective YAML text before padding
MaxBlanks == 2        \* spaces and tabs of a long line

\* ------------------------------------------------------------------------
\* Program constants
\* ------------------------------------------------------------------------
PRIORITY_KEYS == <<"name", "display_name", "version">>

LAST_KEYS == <<"_metadata">>

RECEIPT_KEY_ORDER ==
    <<"packageid", "name", "filename", "installed_size", "version", "optional">>

INSTALLS_KEY_ORDER ==
    <<"path", "type", "CFBundleIdentifier", "CFBundleName",
      "CFBundleShortVersionString", "CFBundleVersion", "md5checksum",
      "minosversion">>

ORDER_MARKER == "__ordered_keys__"

NotInOrder == 999

\* Python compares str by code point: upper case < "_" < lower case.
AlphaOrder ==
    <<"CFBundleIdentifier", "CFBundleName", "CFBundleShortVersionString",
      "CFBundleVersion", "__ordered_keys__", "_metadata", "catalogs",
      "display_name", "filename", "installed_size", "md5checksum",
      "minosversion", "name", "optional", "packageid", "path", "receipts",
      "type", "version">>

\* ------------------------------------------------------------------------
\* Sequences
\* ------------------------------------------------------------------------
Range(s) == {s[i] : i \in 1..Len(s)}

InSeq(k, s) == \E i \in 1..Len(s) : s[i] = k

\* list.index(k), 1-based
IndexOf(s, k) == CHOOSE i \in 1..Len(s) : s[i] = k /\ \A j \in 1..(i-1) : s[j] # k

AlphaKey(k) == IndexOf(AlphaOrder, k)

RECURSIVE InsertByKey(_, _, _)
InsertByKey(sorted, k, rank) ==
    IF sorted = <<>> THEN <<k>>
    ELSE IF rank[k] < rank[Head(sorted)] THEN <<k>> \o sorted
    ELSE <<Head(sorted)>> \o InsertByKey(Tail(sorted), k, rank)

\* list.sort(key=...): a stable sort by ascending key
RECURSIVE SortByKey(_, _)
SortByKey(s, rank) ==
    IF s = <<>> THEN <<>>
    ELSE LET front == SubSeq(s, 1, Len(s) - 1)
         IN  InsertByKey(SortByKey(front, rank), s[Len(s)], rank)

\* ------------------------------------------------------------------------
\* Document trees
\* ------------------------------------------------------------------------
Scalar(x) == [t |-> "scalar", v |-> x, keys |-> <<>>, vals |-> <<>>]

Dict(ks, vs) == [t |-> "dict", v |-> "", keys |-> ks, vals |-> vs]

List(vs) == [t |-> "list", v |-> "", keys |-> <<>>, vals |-> vs]

None == Scalar("null")

IsDict(d) == d.t = "dict"

IsList(d) == d.t = "list"

\* d[key] of a dict
Get(d, key) == d.vals[IndexOf(d.keys, key)]

\* ------------------------------------------------------------------------
\* Key ordering (yaml_bridge.py, lines 234-324)
\* ------------------------------------------------------------------------
is_receipt_dict(d) == IsDict(d) /\ InSeq("packageid", d.keys)

is_installs_dict(d) == IsDict(d) /\ InSeq("path", d.keys) /\ InSeq("type", d.keys)

PositionKey(order) ==
    [k \in Range(AlphaOrder) |->
        IF InSeq(k, order) THEN IndexOf(order, k) - 1 ELSE NotInOrder]

AlphaRank == [k \in Range(AlphaOrder) |-> AlphaKey(k)]

sort_receipt_keys(keys) ==
    LET ordered == SelectSeq(keys, LAMBDA k : InSeq(k, RECEIPT_KEY_ORDER))
        other   == SelectSeq(keys, LAMBDA k : ~InSeq(k, RECEIPT_KEY_ORDER))
    IN  SortByKey(ordered, PositionKey(RECEIPT_KEY_ORDER)) \o SortByKey(other, AlphaRank)

sort_installs_keys(keys) ==
    LET ordered == SelectSeq(keys, LAMBDA k : InSeq(k, INSTALLS_KEY_ORDER))
        other   == SelectSeq(keys, LAMBDA k : ~InSeq(k, INSTALLS_KEY_ORDER))
    IN  SortByKey(ordered, PositionKey(INSTALLS_KEY_ORDER)) \o SortByKey(other, AlphaRank)

Reverse(s) == [i \in 1..Len(s) |-> s[Len(s) + 1 - i]]

\* Faulty variants of sort_pkginfo_keys, each with one slip of the sort.
\* _metadata sorted among the other keys instead of last:
sort_pkginfo_keys_MetadataInMiddle(keys) ==
    LET first_keys  == SelectSeq(keys, LAMBDA k : InSeq(k, PRIORITY_KEYS))
        middle_keys == SelectSeq(keys, LAMBDA k : ~InSeq(k, PRIORITY_KEYS))
    IN  SortByKey(first_keys, PositionKey(PRIORITY_KEYS))
            \o SortByKey(middle_keys, AlphaRank)

\* end_keys left out of the result:
sort_pkginfo_keys_EndKeysLost(keys) ==
    LET first_keys  == SelectSeq(keys, LAMBDA k : InSeq(k, PRIORITY_KEYS))
        middle_keys == SelectSeq(keys, LAMBDA k :
                           ~InSeq(k, PRIORITY_KEYS) /\ ~InSeq(k, LAST_KEYS))
    IN  SortByKey(first_keys, PositionKey(PRIORITY_KEYS))
            \o SortByKey(middle_keys, AlphaRank)

\* middle_keys sorted in descending order of their arrival, not by name:
sort_pkginfo_keys_MiddleReversed(keys) ==
    LET first_keys  == SelectSeq(keys, LAMBDA k : InSeq(k, PRIORITY_KEYS))
        end_keys    == SelectSeq(keys, LAMBDA k :
                           ~InSeq(k, PRIORITY_KEYS) /\ InSeq(k, LAST_KEYS))
        middle_keys == SelectSeq(keys, LAMBDA k :
                           ~InSeq(k, PRIORITY_KEYS) /\ ~InSeq(k, LAST_KEYS))
    IN  SortByKey(first_keys, PositionKey(PRIORITY_KEYS))
            \o Reverse(middle_keys)
            \o SortByKey(end_keys, AlphaRank)

\* middle_keys.sort() left out:
sort_pkginfo_keys_MiddleUnsorted(keys) ==
    LET first_keys  == SelectSeq(keys, LAMBDA k : InSeq(k, PRIORITY_KEYS))
        end_keys    == SelectSeq(keys, LAMBDA k :
                           ~InSeq(k, PRIORITY_KEYS) /\ InSeq(k, LAST_KEYS))
        middle_keys == SelectSeq(keys, LAMBDA k :
                           ~InSeq(k, PRIORITY_KEYS) /\ ~InSeq(k, LAST_KEYS))
    IN  SortByKey(first_keys, PositionKey(PRIORITY_KEYS))
            \o middle_keys
            \o SortByKey(end_keys, AlphaRank)

sort_pkginfo_keys(keys) ==
    LET first_keys  == SelectSeq(keys, LAMBDA k : InSeq(k, PRIORITY_KEYS))
        end_keys    == SelectSeq(keys, LAMBDA k :
                           ~InSeq(k, PRIORITY_KEYS) /\ InSeq(k, LAST_KEYS))
        middle_keys == SelectSeq(keys, LAMBDA k :
                           ~InSeq(k, PRIORITY_KEYS) /\ ~InSeq(k, LAST_KEYS))
    IN  SortByKey(first_keys, PositionKey(PRIORITY_KEYS))
            \o SortByKey(middle_keys, AlphaRank)
            \o SortByKey(end_keys, AlphaRank)

\* {k: v for k, v in data.items() if k != '__ordered_keys__'}
StripMarker(d) ==
    LET keep == SelectSeq(d.keys, LAMBDA k : k # ORDER_MARKER)
    IN  Dict(keep, [i \in 1..Len(keep) |-> Get(d, keep[i])])

\* Faulty variant of the choice of the policy: the shape of the node ignored.
SortedKeysOf_PackageInfoOnly(clean_data) == sort_pkginfo_keys(clean_data.keys)

SortedKeysOf(clean_data) ==
    IF is_receipt_dict(clean_data) THEN sort_receipt_keys(clean_data.keys)
    ELSE IF is_installs_dict(clean_data) THEN sort_installs_keys(clean_data.keys)
    ELSE sort_pkginfo_keys(clean_data.keys)

RECURSIVE order_pkginfo_keys(_)
order_pkginfo_keys(data) ==
    IF IsDict(data) THEN
        LET clean_data  == StripMarker(data)
            sorted_keys == SortedKeysOf(clean_data)
        IN  Dict(sorted_keys,
                 [i \in 1..Len(sorted_keys) |->
                     order_pkginfo_keys(Get(clean_data, sorted_keys[i]))])
    ELSE IF IsList(data) THEN
        List([i \in 1..Len(data.vals) |-> order_pkginfo_keys(data.vals[i])])
    ELSE data

RECURSIVE remove_order_markers(_)
remove_order_markers(data) ==
    IF IsDict(data) THEN
        LET keep == SelectSeq(data.keys, LAMBDA k : k # ORDER_MARKER)
        IN  Dict(keep, [i \in 1..Len(keep) |-> remove_order_markers(Get(data, keep[i]))])
    ELSE IF IsList(data) THEN
        List([i \in 1..Len(data.vals) |-> remove_order_markers(data.vals[i])])
    ELSE data


\* ------------------------------------------------------------------------
\* Emission (yaml_bridge.py, lines 186-232 and 363-373)
\* ------------------------------------------------------------------------
\* A rendered text: its format, its syntax tree and its trailing newlines.
Text(fmt, doc, nl) == [ok |-> TRUE, fmt |-> fmt, doc |-> doc, nl |-> nl]

\* The None a renderer returns after it caught an exception.
NoText == [ok |-> FALSE, fmt |-> "", doc |-> None, nl |-> 0]

Diag(msg, line, pos) == [msg |-> msg, line |-> line, pos |-> pos]

RECURSIVE HasScalar(_, _)
HasScalar(d, kinds) ==
    IF d.t = "scalar" THEN d.v \in kinds
    ELSE \E i \in 1..Len(d.vals) : HasScalar(d.vals[i], kinds)

\* plistlib.dumps(value, sort_keys=True): every dict is written with its
\* keys sorted; None has no property-list representation (TypeError).
RECURSIVE PlistDumps(_)
PlistDumps(d) ==
    IF IsDict(d) THEN
        LET ks == SortByKey(d.keys, AlphaRank)
        IN  Dict(ks, [i \in 1..Len(ks) |-> PlistDumps(Get(d, ks[i]))])
    ELSE IF IsList(d) THEN List([i \in 1..Len(d.vals) |-> PlistDumps(d.vals[i])])
    ELSE d

dict_to_plist_string(data) ==
    LET cleaned_data == remove_order_markers(data)
    IN  IF HasScalar(cleaned_data, {"null"})
        THEN [text |-> NoText, err |-> <<Diag("Error converting to plist", 0, 0)>>]
        ELSE [text |-> Text("plist", PlistDumps(cleaned_data), 1), err |-> <<>>]

\* json.dumps(data, indent=2, ensure_ascii=False): dicts are written in
\* insertion order; datetime and bytes are not JSON serializable.
JsonDumps(data) ==
    IF HasScalar(data, {"date", "bytes"})
    THEN [text |-> NoText, err |-> <<Diag("Error converting to JSON", 0, 0)>>]
    ELSE [text |-> Text("json", data, 0), err |-> <<>>]

\* Faulty variant of dict_to_yaml_string: the call of order_pkginfo_keys left out.
dict_to_yaml_string_Unordered(data) ==
    [text |-> Text("yaml", data, 0), err |-> <<>>]

\* yaml.dump(..., sort_keys=False) keeps the insertion order and ends the text
\* with a newline, which rstrip('\n') removes.
dict_to_yaml_string(data) ==
    LET ordered_data == order_pkginfo_keys(data)
        yaml_string  == Text("yaml", ordered_data, 1)
    IN  [text |-> [yaml_string EXCEPT !.nl = 0], err |-> <<>>]

\* ------------------------------------------------------------------------
\* YAML text: a sequence of lines.  A line is a record
\*   kind : "kv" (a top-level "key: value" entry, the value in flow style),
\*          "sep" (the document marker ---), "comment", "blank", "bad"
\*          (a line the scanner rejects)
\*   key, val : the entry of a "kv" line
\*   len  : number of characters
\*   sp, tb : the 0-based positions of its spaces and of its tabs
\* ------------------------------------------------------------------------
LONG_LINE == 10000

TRUNCATE_POS == 9000

TRUNCATE_MIN == 8000

MIN_CHUNK_LINES == 100

SIZE_LIMIT == 52428800

Line(kind, key, val, len, sp, tb) ==
    [kind |-> kind, key |-> key, val |-> val, len |-> len, sp |-> sp, tb |-> tb]

\* line[:n]
Slice(line, n) ==
    [line EXCEPT !.len = IF n < line.len THEN n ELSE line.len,
                 !.sp = {p \in line.sp : p < n},
                 !.tb = {p \in line.tb : p < n},
                 !.val = IF n < line.len /\ line.kind = "kv"
                         THEN Scalar("truncated") ELSE line.val]

\* line + "..."
Ellipsis(line) == [line EXCEPT !.len = line.len + 3]

SetMax(S) == CHOOSE m \in S : \A x \in S : x <= m

SetMin(S) == CHOOSE m \in S : \A x \in S : m <= x

\* line[pos] in ' \t'
IsBoundary(line, pos) == pos \in (line.sp \cup line.tb)

\* while truncate_pos > 8000 and line[truncate_pos] not in ' \t': truncate_pos -= 1
\* The loop walks down from truncate_pos and stops at the first position that
\* holds a space or a tab, or at 8000: it ends at the largest such position
\* above 8000, when there is one.
FindBoundary(line, truncate_pos) ==
    LET stops == {p \in (line.sp \cup line.tb) : p > TRUNCATE_MIN /\ p <= truncate_pos}
    IN  IF stops # {} THEN SetMax(stops)
        ELSE IF truncate_pos > TRUNCATE_MIN THEN TRUNCATE_MIN ELSE truncate_pos

\* Faulty variant of the truncation step: len(line) >= 10000.
TruncateLine_Inclusive(line, line_num) ==
    IF line.len >= LONG_LINE THEN
        LET truncate_pos == FindBoundary(line, TRUNCATE_POS)
        IN  IF truncate_pos > TRUNCATE_MIN
            THEN [line |-> Ellipsis(Slice(line, truncate_pos)),
                  err  |-> <<Diag("Warning: Truncated long line", line_num, truncate_pos)>>]
            ELSE [line |-> Ellipsis(Slice(line, TRUNCATE_POS)),
                  err  |-> <<Diag("Warning: Hard truncated line", line_num, 0)>>]
    ELSE [line |-> line, err |-> <<>>]

\* the truncation step of preprocess_yaml for one line
TruncateLine(line, line_num) ==
    IF line.len > LONG_LINE THEN
        LET truncate_pos == FindBoundary(line, TRUNCATE_POS)
        IN  IF truncate_pos > TRUNCATE_MIN
            THEN [line |-> Ellipsis(Slice(line, truncate_pos)),
                  err  |-> <<Diag("Warning: Truncated long line", line_num, truncate_pos)>>]
            ELSE [line |-> Ellipsis(Slice(line, TRUNCATE_POS)),
                  err  |-> <<Diag("Warning: Hard truncated line", line_num, 0)>>]
    ELSE [line |-> line, err |-> <<>>]

\* str.expandtabs(2): the columns added in front of position q
RECURSIVE TabShift(_, _)
TabShift(tb, q) ==
    LET before == {p \in tb : p < q}
    IN  IF before = {} THEN 0
        ELSE LET m == SetMax(before)
                 s == TabShift(tb, m)
             IN  s + (1 - ((m + s) % 2))

ExpandTabs(line) ==
    IF line.tb # {} THEN
        [line EXCEPT
            !.len = line.len + TabShift(line.tb, line.len),
            !.sp  = {p + TabShift(line.tb, p) : p \in line.sp}
                      \cup UNION {(p + TabShift(line.tb, p))
                                    .. (p + TabShift(line.tb, p + 1)) : p \in line.tb},
            !.tb  = {}]
    ELSE line

\* The re-encoding step (lines 91-96) only acts on text with lone surrogates,
\* which text decoded from a file never holds: it leaves every line alone.
RECURSIVE Warnings(_, _)
Warnings(lines, long) ==
    IF long = {} THEN <<>>
    ELSE TruncateLine(lines[SetMin(long)], SetMin(long)).err
           \o Warnings(lines, long \ {SetMin(long)})

preprocess_yaml(content) ==
    [lines |-> [i \in 1..Len(content) |-> ExpandTabs(TruncateLine(content[i], i).line)],
     err   |-> Warnings(content, {i \in 1..Len(content) :
                                     TruncateLine(content[i], i).err # <<>>})]


\* ------------------------------------------------------------------------
\* yaml.safe_load on a text of lines
\* ------------------------------------------------------------------------
Loaded(doc) == [ok |-> TRUE, doc |-> doc]

YAMLError == [ok |-> FALSE, doc |-> None]

IsEmptyDict(d) == IsDict(d) /\ d.keys = <<>>

\* dict[key] = val: a new key goes last, a known key keeps its place
SetItem(d, key, val) ==
    IF InSeq(key, d.keys)
    THEN Dict(d.keys, [i \in 1..Len(d.keys) |-> IF d.keys[i] = key THEN val ELSE d.vals[i]])
    ELSE Dict(Append(d.keys, key), Append(d.vals, val))

\* The mapping of the entries, in the order of the text.
RECURSIVE MappingOf(_, _)
MappingOf(entries, d) ==
    IF entries = <<>> THEN d
    ELSE MappingOf(Tail(entries), SetItem(d, Head(entries).key, Head(entries).val))

Entries(lines) == SelectSeq(lines, LAMBDA l : l.kind = "kv")

\* A line the scanner rejects: a malformed line, or a tab used as indentation.
Rejected(line) == line.kind = "bad" \/ 0 \in line.tb

\* The number of documents of the stream: every marker line opens one, and
\* entries in front of the first marker form one more.
DocumentCount(lines) ==
    LET seps  == {i \in 1..Len(lines) : lines[i].kind = "sep"}
        first == IF seps = {} THEN Len(lines) + 1
                 ELSE CHOOSE i \in seps : \A j \in seps : i <= j
    IN  Cardinality(seps)
          + (IF \E i \in 1..(first - 1) : lines[i].kind = "kv" THEN 1 ELSE 0)

\* yaml.safe_load(content): YAMLError on a scanner error or on more than one
\* document, None for a stream without content, else the single document.
safe_load(lines) ==
    IF \E i \in 1..Len(lines) : Rejected(lines[i]) THEN YAMLError
    ELSE IF DocumentCount(lines) > 1 THEN YAMLError
    ELSE LET d == MappingOf(Entries(lines), Dict(<<>>, <<>>))
         IN  IF IsEmptyDict(d) THEN Loaded(None) ELSE Loaded(d)

\* line.strip() == '---'
IsSeparator(line) == line.kind = "sep"

\* Faulty variant of the splitting loop: the test "and current_doc" left out,
\* so that every marker line closes a segment.
RECURSIVE SplitDocs_EveryMarker(_, _)
SplitDocs_EveryMarker(lines, start) ==
    IF start > Len(lines) THEN <<>>
    ELSE LET seps == {j \in start..Len(lines) : IsSeparator(lines[j])}
         IN  IF seps = {} THEN <<SubSeq(lines, start, Len(lines))>>
             ELSE <<SubSeq(lines, start, SetMin(seps) - 1)>>
                    \o SplitDocs_EveryMarker(lines, SetMin(seps) + 1)

\* The loop of parse_chunked_yaml, lines 114-126: the list of segments.
\* When current_doc is empty the loop appends the line at start to it, marker
\* or not; it then appends every line up to the next marker, which closes the
\* segment, and the loop goes on after that marker with current_doc empty.
RECURSIVE SplitDocs(_, _)
SplitDocs(lines, start) ==
    IF start > Len(lines) THEN <<>>
    ELSE LET seps == {j \in (start + 1)..Len(lines) : IsSeparator(lines[j])}
         IN  IF seps = {} THEN <<SubSeq(lines, start, Len(lines))>>
             ELSE <<SubSeq(lines, start, SetMin(seps) - 1)>>
                    \o SplitDocs(lines, SetMin(seps) + 1)

\* The loop of parse_chunked_yaml, lines 130-137: the first segment from i on
\* that loads to a document other than None, 0 when there is none.
RECURSIVE FirstValid(_, _)
FirstValid(yaml_docs, i) ==
    IF i > Len(yaml_docs) THEN 0
    ELSE LET result == safe_load(yaml_docs[i])
         IN  IF result.ok /\ result.doc # None THEN i
             ELSE FirstValid(yaml_docs, i + 1)

parse_chunked_yaml(content) ==
    IF Len(content) < MIN_CHUNK_LINES
    THEN [res |-> safe_load(content), err |-> <<>>, docs |-> <<>>]
    ELSE LET yaml_docs == SplitDocs(content, 1)
             i == IF Len(yaml_docs) > 1 THEN FirstValid(yaml_docs, 1) ELSE 0
         IN  IF i > 0
             THEN [res  |-> safe_load(yaml_docs[i]),
                   err  |-> <<Diag("Successfully parsed YAML document", i, Len(yaml_docs))>>,
                   docs |-> yaml_docs]
             ELSE [res |-> YAMLError, err |-> <<>>, docs |-> yaml_docs]


\* ------------------------------------------------------------------------
\* State
\* ------------------------------------------------------------------------
VARIABLES
    argc,           \* len(sys.argv)
    input_ext,      \* extension of sys.argv[1], lower case
    output_format,  \* sys.argv[2].lower()
    file,           \* the input file
    pc,             \* position of the run in main
    content,        \* the text safe_load_yaml works on
    attempts,       \* the strategies tried so far, with their outcome
    yaml_docs,      \* the segments parse_chunked_yaml built
    data,           \* the document read, None when there is none
    stdout,         \* texts printed on standard output
    stderr,         \* diagnostics printed on standard error
    exit_code,      \* -1 while the run goes on
    run,            \* 1, or 2 when the input is the output of run 1
    source          \* the document run 1 read, once run 2 has started

vars == <<argc, input_ext, output_format, file, pc, content, attempts,
          yaml_docs, data, stdout, stderr, exit_code, run, source>>

File(exists, size, utf8, lines, doc, valid) ==
    [exists |-> exists, size |-> size, utf8 |-> utf8, lines |-> lines,
     doc |-> doc, valid |-> valid]

Attempt(strategy, res) == [strategy |-> strategy, ok |-> res.ok, doc |-> res.doc]

\* sys.exit(code) after the diagnostics err
Exit(code, err) ==
    /\ pc' = "exit"
    /\ exit_code' = code
    /\ stderr' = stderr \o err

\* ------------------------------------------------------------------------
\* main, lines 326-361: reading the input
\* ------------------------------------------------------------------------
Usage ==
    /\ pc = "main"
    /\ argc < 3
    /\ stdout' = stdout \o <<Text("usage", Scalar("Usage: yaml_bridge.py"), 1),
                             Text("usage", Scalar("output_format"), 1)>>
    /\ Exit(1, <<>>)
    /\ UNCHANGED <<argc, input_ext, output_format, file, content, attempts,
                   yaml_docs, data, run, source>>

NotFound ==
    /\ pc = "main"
    /\ argc >= 3
    /\ ~file.exists
    /\ Exit(1, <<Diag("Error: File not found", 0, 0)>>)
    /\ UNCHANGED <<argc, input_ext, output_format, file, content, attempts,
                   yaml_docs, data, stdout, run, source>>

Encodings == <<"utf-8", "utf-8-sig", "latin1", "cp1252">>

\* open(path, encoding=enc).read() succeeds: latin1 decodes every byte string
Decodes(f, enc) == enc = "latin1" \/ f.utf8

\* content.strip() is empty
IsBlankText(lines) == \A i \in 1..Len(lines) : lines[i].kind = "blank"

\* yaml_to_dict, lines 142-180, up to the call of safe_load_yaml
yaml_to_dict ==
    /\ pc = "main"
    /\ argc >= 3
    /\ file.exists
    /\ input_ext \in {"yaml", "yml"}
    /\ IF file.size > SIZE_LIMIT THEN
            /\ data' = None
            /\ pc' = "convert"
            /\ stderr' = Append(stderr, Diag("Error: YAML file too large", 0, file.size))
            /\ UNCHANGED content
       ELSE IF \A i \in 1..Len(Encodings) : ~Decodes(file, Encodings[i]) THEN
            /\ data' = None
            /\ pc' = "convert"
            /\ stderr' = Append(stderr, Diag("Error: Unable to decode file", 0, 0))
            /\ UNCHANGED content
       ELSE IF IsBlankText(file.lines) THEN
            /\ data' = Dict(<<>>, <<>>)
            /\ pc' = "convert"
            /\ stderr' = Append(stderr, Diag("Warning: Empty YAML file", 0, 0))
            /\ UNCHANGED content
       ELSE /\ content' = file.lines
            /\ pc' = "strategy1"
            /\ UNCHANGED <<data, stderr>>
    /\ UNCHANGED <<argc, input_ext, output_format, file, attempts, yaml_docs,
                   stdout, exit_code, run, source>>

ReadPlist ==
    /\ pc = "main"
    /\ argc >= 3
    /\ file.exists
    /\ input_ext = "plist"
    /\ IF file.valid
       THEN /\ data' = file.doc
            /\ pc' = "convert"
            /\ UNCHANGED <<stderr, exit_code>>
       ELSE /\ Exit(1, <<Diag("Error reading plist file", 0, 0)>>)
            /\ UNCHANGED data
    /\ UNCHANGED <<argc, input_ext, output_format, file, content, attempts,
                   yaml_docs, stdout, run, source>>

ReadJson ==
    /\ pc = "main"
    /\ argc >= 3
    /\ file.exists
    /\ input_ext = "json"
    /\ IF file.valid /\ file.utf8
       THEN /\ data' = file.doc
            /\ pc' = "convert"
            /\ UNCHANGED <<stderr, exit_code>>
       ELSE /\ Exit(1, <<Diag("Error reading JSON file", 0, 0)>>)
            /\ UNCHANGED data
    /\ UNCHANGED <<argc, input_ext, output_format, file, content, attempts,
                   yaml_docs, stdout, run, source>>

UnsupportedInput ==
    /\ pc = "main"
    /\ argc >= 3
    /\ file.exists
    /\ input_ext \notin {"yaml", "yml", "plist", "json"}
    /\ Exit(1, <<Diag("Error: Unsupported input file format", 0, 0)>>)
    /\ UNCHANGED <<argc, input_ext, output_format, file, content, attempts,
                   yaml_docs, data, stdout, run, source>>

\* ------------------------------------------------------------------------
\* RobustYAMLLoader.safe_load_yaml, lines 38-62
\* ------------------------------------------------------------------------
Strategy1 ==
    /\ pc = "strategy1"
    /\ LET res == safe_load(content)
       IN  /\ attempts' = Append(attempts, Attempt(1, res))
           /\ IF res.ok
              THEN /\ data' = res.doc
                   /\ pc' = "convert"
                   /\ UNCHANGED stderr
              ELSE /\ stderr' = Append(stderr, Diag("Standard YAML parsing failed", 0, 0))
                   /\ pc' = "strategy2"
                   /\ UNCHANGED data
    /\ UNCHANGED <<argc, input_ext, output_format, file, content, yaml_docs,
                   stdout, exit_code, run, source>>

Strategy2 ==
    /\ pc = "strategy2"
    /\ LET pre == preprocess_yaml(content)
           res == safe_load(pre.lines)
       IN  /\ content' = pre.lines
           /\ attempts' = Append(attempts, Attempt(2, res))
           /\ IF res.ok
              THEN /\ data' = res.doc
                   /\ pc' = "convert"
                   /\ stderr' = stderr \o pre.err
              ELSE /\ stderr' = (stderr \o pre.err)
                                  \o <<Diag("Preprocessed YAML parsing failed", 0, 0)>>
                   /\ pc' = "strategy3"
                   /\ UNCHANGED data
    /\ UNCHANGED <<argc, input_ext, output_format, file, yaml_docs, stdout,
                   exit_code, run, source>>

Strategy3 ==
    /\ pc = "strategy3"
    /\ LET chunked == parse_chunked_yaml(content)
       IN  /\ attempts' = Append(attempts, Attempt(3, chunked.res))
           /\ yaml_docs' = chunked.docs
           /\ pc' = "convert"
           /\ IF chunked.res.ok
              THEN /\ data' = chunked.res.doc
                   /\ stderr' = stderr \o chunked.err
              ELSE /\ data' = None
                   /\ stderr' = Append(stderr, Diag("Chunked YAML parsing failed", 0, 0))
    /\ UNCHANGED <<argc, input_ext, output_format, file, content, stdout,
                   exit_code, run, source>>


\* ------------------------------------------------------------------------
\* main, lines 360-381: writing the output
\* ------------------------------------------------------------------------
\* if result: print(result) else: sys.exit(1)
Finish(rendered) ==
    IF rendered.text.ok
    THEN /\ stdout' = Append(stdout, [rendered.text EXCEPT !.nl = @ + 1])
         /\ Exit(0, rendered.err)
    ELSE /\ Exit(1, rendered.err)
         /\ UNCHANGED stdout

NoData ==
    /\ pc = "convert"
    /\ data = None
    /\ Exit(1, <<>>)
    /\ UNCHANGED <<argc, input_ext, output_format, file, content, attempts,
                   yaml_docs, data, stdout, run, source>>

ConvertPlist ==
    /\ pc = "convert"
    /\ data # None
    /\ output_format = "plist"
    /\ Finish(dict_to_plist_string(data))
    /\ UNCHANGED <<argc, input_ext, output_format, file, content, attempts,
                   yaml_docs, data, run, source>>

ConvertJson ==
    /\ pc = "convert"
    /\ data # None
    /\ output_format = "json"
    /\ Finish(JsonDumps(data))
    /\ UNCHANGED <<argc, input_ext, output_format, file, content, attempts,
                   yaml_docs, data, run, source>>

ConvertYaml ==
    /\ pc = "convert"
    /\ data # None
    /\ output_format = "yaml"
    /\ Finish(dict_to_yaml_string(data))
    /\ UNCHANGED <<argc, input_ext, output_format, file, content, attempts,
                   yaml_docs, data, run, source>>

UnsupportedOutput ==
    /\ pc = "convert"
    /\ data # None
    /\ output_format \notin {"plist", "json", "yaml"}
    /\ Exit(1, <<Diag("Error: Unsupported output format", 0, 0)>>)
    /\ UNCHANGED <<argc, input_ext, output_format, file, content, attempts,
                   yaml_docs, data, stdout, run, source>>

\* The property list a first run wrote is saved and converted to YAML by a
\* second run.  plistlib.load returns every dict in the order of the file.
RunOnOutput ==
    /\ pc = "exit"
    /\ exit_code = 0
    /\ run = 1
    /\ output_format = "plist"
    /\ run' = 2
    /\ source' = [ext |-> input_ext, doc |-> data]
    /\ file' = File(TRUE, 1000, TRUE, <<>>, stdout[1].doc, TRUE)
    /\ input_ext' = "plist"
    /\ output_format' = "yaml"
    /\ pc' = "main"
    /\ content' = <<>>
    /\ attempts' = <<>>
    /\ yaml_docs' = <<>>
    /\ data' = None
    /\ stdout' = <<>>
    /\ stderr' = <<>>
    /\ exit_code' = -1
    /\ UNCHANGED argc


\* ------------------------------------------------------------------------
\* Inputs
\* ------------------------------------------------------------------------
InputKeys ==
    {"CFBundleName", "__ordered_keys__", "_metadata", "catalogs", "display_name",
     "name", "packageid", "path", "type", "version"}

\* the sequences of at most n distinct keys
KeySeqs(n) ==
    UNION {{ks \in [1..m -> InputKeys] : \A i, j \in 1..m : i # j => ks[i] # ks[j]}
             : m \in 0..n}

Str(k) == Scalar(k)

FlatDict(ks) == Dict(ks, [i \in 1..Len(ks) |-> Str(ks[i])])

FlatDocs == {FlatDict(ks) : ks \in KeySeqs(MaxKeys)}

InnerDocs == {FlatDict(ks) : ks \in KeySeqs(MaxNestedKeys)}

NestedDocs ==
    {Dict(<<"version", "receipts", "name">>,
          <<Str("version"), List(<<d, FlatDict(<<"type", "name", "path">>)>>), Str("name")>>)
        : d \in InnerDocs}
    \cup {Dict(<<"_metadata", "name">>, <<d, Str("name")>>) : d \in InnerDocs}
    \cup {Dict(<<"receipts">>,
               <<List(<<Dict(<<"version", "packageid">>, <<d, Str("packageid")>>)>>)>>)
            : d \in InnerDocs}

\* documents of every format
PlainDocs ==
    FlatDocs \cup NestedDocs
      \cup {List(<<FlatDict(<<"version", "name">>)>>), Str("name")}

\* documents with a value that one of the output formats cannot hold
NullDocs ==
    {Dict(<<"version", "name">>, <<None, Str("name")>>),
     Dict(<<"receipts">>, <<List(<<None>>)>>)}

DateDocs ==
    {Dict(<<"version", "name">>, <<Scalar("date"), Str("name")>>),
     Dict(<<"_metadata", "name">>, <<FlatDict(<<"name">>), Scalar("bytes")>>)}

KV(k, v) == Line("kv", k, v, 12, {5}, {})

TabKV(k, v) == Line("kv", k, v, 13, {6}, {0})

Sep == Line("sep", "", None, 3, {}, {})

SepTrail == Line("sep", "", None, 4, {3}, {})

Comment == Line("comment", "", None, 9, {1}, {})

Blank == Line("blank", "", None, 0, {}, {})

Bad == Line("bad", "", None, 7, {}, {})

\* the YAML text of a mapping: one entry per line
LinesOf(d) == [i \in 1..Len(d.keys) |-> KV(d.keys[i], d.vals[i])]

YamlDocs == {d \in (PlainDocs \cup NullDocs \cup DateDocs) : IsDict(d)}

CoreLines ==
    {KV("version", Str("version")), KV("name", Str("name")),
     TabKV("display_name", Str("display_name")), Sep, SepTrail, Blank, Bad}

Cores == UNION {[1..m -> CoreLines] : m \in 0..MaxCore}

Padding == [i \in 1..MIN_CHUNK_LINES |-> Comment]

CascadeTexts ==
    Cores \cup {Padding \o c : c \in Cores} \cup {c \o Padding : c \in Cores}

BlankPositions ==
    {TRUNCATE_MIN - 1, TRUNCATE_MIN, TRUNCATE_MIN + 1, 8500,
     TRUNCATE_POS, TRUNCATE_POS + 1}

BlankSets == {S \in SUBSET BlankPositions : Cardinality(S) <= MaxBlanks}

LongLines ==
    {Line("kv", "name", Str("name"), n, S, {})
        : n \in {LONG_LINE, LONG_LINE + 1}, S \in BlankSets}
    \cup {Line("kv", "name", Str("name"), n, {}, S)
        : n \in {LONG_LINE, LONG_LINE + 1}, S \in BlankSets \ {{}}}

LongTexts ==
    {<<l>> : l \in LongLines}
      \cup {<<l, Bad>> : l \in LongLines}
      \cup {<<l, TabKV("version", Str("version"))>> : l \in LongLines}

YamlFile(lines) == File(TRUE, 1000, TRUE, lines, None, TRUE)

DocFile(doc) == File(TRUE, 1000, TRUE, <<>>, doc, TRUE)

SmallDocs == NestedDocs \cup {List(<<FlatDict(<<"version", "name">>)>>), Str("name")}

DefectiveTexts ==
    {<<TabKV("display_name", Str("display_name")), KV("name", Str("name"))>>,
     <<KV("name", Str("name")), Bad>>,
     <<Comment, Comment>>,
     Padding \o <<KV("version", Str("version")), Sep, KV("name", Str("name"))>>}

OutputFormats == {"plist", "json", "yaml"}

Request(ext, f, fmt) == [ext |-> ext, file |-> f, fmt |-> fmt]

\* the conversions of well-formed files
DocRequests ==
    {Request("yaml", YamlFile(LinesOf(d)), fmt) : d \in YamlDocs, fmt \in OutputFormats}
    \cup {Request("plist", DocFile(d), fmt)
            : d \in SmallDocs \cup DateDocs, fmt \in OutputFormats}
    \cup {Request("json", DocFile(d), fmt)
            : d \in SmallDocs \cup NullDocs \cup {None}, fmt \in OutputFormats}

\* the conversions that meet a defect of the call or of the file
DefectRequests ==
    {Request("yaml", YamlFile(t), fmt) : t \in DefectiveTexts, fmt \in OutputFormats}
    \cup {Request(e, f, "json")
            : e \in {"yaml", "yml", "plist", "json", "txt"},
              f \in {File(FALSE, 0, TRUE, <<>>, None, FALSE),
                     File(TRUE, 1000, TRUE, <<Bad>>, None, FALSE),
                     File(TRUE, 1000, FALSE, LinesOf(FlatDict(<<"name">>)),
                          FlatDict(<<"name">>), TRUE),
                     File(TRUE, SIZE_LIMIT, TRUE, LinesOf(FlatDict(<<"name">>)),
                          FlatDict(<<"name">>), TRUE),
                     File(TRUE, SIZE_LIMIT + 1, TRUE, LinesOf(FlatDict(<<"name">>)),
                          FlatDict(<<"name">>), TRUE)}}
    \cup {Request(e, DocFile(FlatDict(<<"version", "name">>)), "xml")
            : e \in {"plist", "json"}}

\* the conversions of YAML texts that need the fallback strategies
CascadeRequests ==
    {Request("yaml", YamlFile(t), "yaml") : t \in CascadeTexts \cup LongTexts}

Start(requests, argcs) ==
    /\ \E r \in requests, n \in argcs :
          /\ input_ext = r.ext
          /\ file = r.file
          /\ output_format = r.fmt
          /\ argc = n
          /\ n < 3 => r.ext = "txt"
    /\ pc = "main"
    /\ content = <<>>
    /\ attempts = <<>>
    /\ yaml_docs = <<>>
    /\ data = None
    /\ stdout = <<>>
    /\ stderr = <<>>
    /\ exit_code = -1
    /\ run = 1
    /\ source = [ext |-> "", doc |-> None]

Init == Start(DocRequests \cup DefectRequests, 1..3)

InitCascade == Start(CascadeRequests, {3})

Next ==
    \/ Usage
    \/ NotFound
    \/ yaml_to_dict
    \/ ReadPlist
    \/ ReadJson
    \/ UnsupportedInput
    \/ Strategy1
    \/ Strategy2
    \/ Strategy3
    \/ NoData
    \/ ConvertPlist
    \/ ConvertJson
    \/ ConvertYaml
    \/ UnsupportedOutput
    \/ RunOnOutput

Spec == Init /\ [][Next]_vars

NextCascade ==
    \/ yaml_to_dict
    \/ Strategy1
    \/ Strategy2
    \/ Strategy3
    \/ NoData
    \/ ConvertYaml

SpecCascade == InitCascade /\ [][NextCascade]_vars


\* ------------------------------------------------------------------------
\* Vocabulary of the properties
\* ------------------------------------------------------------------------
Succeeded == pc = "exit" /\ exit_code = 0

\* the document of the text the run printed
Emitted == stdout[1].doc

Shorter(a, b) == IF Len(a) < Len(b) THEN Len(a) ELSE Len(b)

\* the nodes of a document paired with the nodes at the same place of another
RECURSIVE Pairs(_, _)
Pairs(in, out) ==
    {<<in, out>>} \cup
    (IF IsDict(in) /\ IsDict(out)
     THEN UNION {Pairs(Get(in, k), Get(out, k)) : k \in Range(in.keys) \cap Range(out.keys)}
     ELSE IF IsList(in) /\ IsList(out)
     THEN UNION {Pairs(in.vals[i], out.vals[i]) : i \in 1..Shorter(in.vals, out.vals)}
     ELSE {})

RECURSIVE Nodes(_)
Nodes(d) == {d} \cup UNION {Nodes(d.vals[i]) : i \in 1..Len(d.vals)}

CleanKeys(d) == Range(d.keys) \ {ORDER_MARKER}

\* the keys of S in the order of a priority list, and in alphabetical order
Present(order, S) == SelectSeq(order, LAMBDA k : k \in S)

Alphabetical(S) == SelectSeq(AlphaOrder, LAMBDA k : k \in S)

PackageInfoOrder(S) ==
    Present(<<"name", "display_name", "version">>, S)
      \o Alphabetical(S \ {"name", "display_name", "version", "_metadata"})
      \o Present(<<"_metadata">>, S)

ReceiptOrder(S) ==
    Present(<<"packageid", "name", "filename", "installed_size", "version", "optional">>, S)
      \o Alphabetical(S \ {"packageid", "name", "filename", "installed_size",
                           "version", "optional"})

InstallItemOrder(S) ==
    Present(INSTALLS_KEY_ORDER, S) \o Alphabetical(S \ Range(INSTALLS_KEY_ORDER))

IsPackageInfoShape(S) == "packageid" \notin S /\ ~({"path", "type"} \subseteq S)

NoDuplicate(ks) == \A i, j \in 1..Len(ks) : i # j => ks[i] # ks[j]

\* ------------------------------------------------------------------------
\* Properties
\* ------------------------------------------------------------------------

\* C1 (as stated): the text emitted in any of the three formats holds the keys
\* of every mapping in the order the ordering step computes for that mapping.
C1_Original ==
    Succeeded =>
        \A p \in Pairs(data, Emitted) :
            IsDict(p[1]) => IsDict(p[2]) /\ p[2].keys = SortedKeysOf(StripMarker(p[1]))

\* C1 (amended): only YAML output holds the keys of every mapping in the order
\* of the ordering step; JSON output holds the document as it was read, keys in
\* the order of the input, and property-list output holds the keys of every
\* mapping, the ordering marker left out, in ascending alphabetical order.
C1_EmittedOrder ==
    Succeeded =>
        /\ output_format = "yaml" =>
              \A p \in Pairs(data, Emitted) :
                  IsDict(p[1]) => IsDict(p[2]) /\ p[2].keys = SortedKeysOf(StripMarker(p[1]))
        /\ output_format = "json" => Emitted = data
        /\ output_format = "plist" =>
              \A p \in Pairs(data, Emitted) :
                  IsDict(p[1]) => IsDict(p[2]) /\ p[2].keys = Alphabetical(CleanKeys(p[1]))

C1_Witness ==
    /\ Succeeded
    /\ input_ext = "yaml"
    /\ output_format = "json"
    /\ IsDict(data)
    /\ data.keys = <<"name", "version", "display_name">>
    /\ Emitted.keys = <<"name", "version", "display_name">>

\* C2: in YAML output a mapping without packageid and without both path and
\* type has name, display_name, version first (those present, in that order),
\* then its other keys except _metadata in alphabetical order, then _metadata,
\* whatever the order of the keys in the input.
C2_PackageInfoOrder ==
    (Succeeded /\ output_format = "yaml") =>
        \A p \in Pairs(data, Emitted) :
            (IsDict(p[1]) /\ IsPackageInfoShape(CleanKeys(p[1]))) =>
                IsDict(p[2]) /\ p[2].keys = PackageInfoOrder(CleanKeys(p[1]))

C2_Witness ==
    /\ Succeeded
    /\ output_format = "yaml"
    /\ IsDict(data)
    /\ data.keys = <<"_metadata", "catalogs", "name">>
    /\ Emitted.keys = <<"name", "catalogs", "_metadata">>

\* C3: the policy is chosen at every mapping node from the node's own keys,
\* marker removed: receipt order with packageid, install-item order with path
\* and type and no packageid, package-info order otherwise, at any depth and
\* inside sequences, whatever the policy of the parent.
C3_PolicyPerNode ==
    (Succeeded /\ output_format = "yaml") =>
        \A p \in Pairs(data, Emitted) :
            IsDict(p[1]) =>
                /\ IsDict(p[2])
                /\ p[2].keys =
                     IF "packageid" \in CleanKeys(p[1]) THEN ReceiptOrder(CleanKeys(p[1]))
                     ELSE IF {"path", "type"} \subseteq CleanKeys(p[1])
                          THEN InstallItemOrder(CleanKeys(p[1]))
                          ELSE PackageInfoOrder(CleanKeys(p[1]))

\* a receipt in a sequence of a package-info root, holding an install item
C3_Witness ==
    /\ Succeeded
    /\ output_format = "yaml"
    /\ IsDict(data)
    /\ data.keys = <<"receipts">>
    /\ \E p \in Pairs(data, Emitted) :
          /\ IsDict(p[1])
          /\ p[1].keys = <<"version", "packageid">>
          /\ p[2].keys = <<"packageid", "version">>
          /\ Get(p[1], "version").keys = <<"type", "path">>
          /\ Get(p[2], "version").keys = <<"path", "type">>

\* C4 (as stated): the ordering step keeps the key set of every mapping.
C4_Original ==
    (Succeeded /\ output_format = "yaml") =>
        \A p \in Pairs(data, Emitted) :
            IsDict(p[1]) =>
                /\ IsDict(p[2])
                /\ Range(p[2].keys) = Range(p[1].keys)
                /\ NoDuplicate(p[2].keys)

\* C4 (amended): the ordering step removes the ordering marker and keeps every
\* other key of every mapping, each exactly once, and adds none.
C4_KeySetPreserved ==
    (Succeeded /\ output_format = "yaml") =>
        \A p \in Pairs(data, Emitted) :
            IsDict(p[1]) =>
                /\ IsDict(p[2])
                /\ Range(p[2].keys) = Range(p[1].keys) \ {"__ordered_keys__"}
                /\ NoDuplicate(p[2].keys)

C4_Witness ==
    /\ Succeeded
    /\ output_format = "yaml"
    /\ IsDict(data)
    /\ data.keys = <<"version", "__ordered_keys__", "_metadata">>
    /\ Emitted.keys = <<"version", "_metadata">>

\* C5: ordering an ordered document changes nothing, neither the order of the
\* keys of any mapping nor the values.
C5_Idempotent ==
    (Succeeded /\ output_format = "yaml") =>
        order_pkginfo_keys(Emitted) = Emitted

C5_Witness ==
    /\ Succeeded
    /\ output_format = "yaml"
    /\ IsDict(data)
    /\ data.keys = <<"version", "receipts", "name">>
    /\ Emitted # data
    /\ \E d \in Nodes(data) : IsDict(d) /\ InSeq("__ordered_keys__", d.keys)

\* the mappings and sequences of a document without its scalars
RECURSIVE KeyShape(_)
KeyShape(d) ==
    IF IsDict(d) THEN Dict(d.keys, [i \in 1..Len(d.vals) |-> KeyShape(d.vals[i])])
    ELSE IF IsList(d) THEN List([i \in 1..Len(d.vals) |-> KeyShape(d.vals[i])])
    ELSE Scalar("")

\* C6: a YAML document converted to a property list and that property list
\* converted to YAML has, at every level, the key sequence the ordering step
\* gives the source document.
C6_RoundTrip ==
    (run = 2 /\ pc = "exit" /\ source.ext = "yaml") =>
        /\ exit_code = 0
        /\ KeyShape(Emitted) = KeyShape(order_pkginfo_keys(source.doc))

C6_Witness ==
    /\ run = 2
    /\ Succeeded
    /\ source.ext = "yaml"
    /\ source.doc.keys = <<"version", "catalogs", "name">>
    /\ file.doc.keys = <<"catalogs", "name", "version">>
    /\ Emitted.keys = <<"name", "version", "catalogs">>

\* C7: a run that fails exits with a non-zero code, has written a diagnostic
\* to standard error and has written nothing to standard output.
C7_Claim ==
    (pc = "exit" /\ exit_code # 0) => Len(stderr) >= 1 /\ stdout = <<>>

\* C8: the strategies are tried in the order 1, 2, 3, each only after the
\* earlier ones failed, the document read is the result of the first that
\* succeeds, and there is no document exactly when all three failed.
C8_Claim ==
    (attempts # <<>> /\ pc \in {"convert", "exit"}) =>
        /\ \A k \in 1..Len(attempts) : attempts[k].strategy = k
        /\ \A k \in 1..(Len(attempts) - 1) : ~attempts[k].ok
        /\ attempts[Len(attempts)].ok => data = attempts[Len(attempts)].doc
        /\ data = None <=> (Len(attempts) = 3 /\ \A k \in 1..3 : ~attempts[k].ok)


\* the line was truncated: preprocess_yaml reported it
Truncated(i) ==
    \E k \in 1..Len(stderr) :
        /\ stderr[k].line = i
        /\ stderr[k].msg \in {"Warning: Truncated long line", "Warning: Hard truncated line"}

\* the spaces and tabs of a line between the positions low and 9000
Window(l, low) == {p \in low..9000 : p \in (l.sp \cup l.tb)}

CutAt(l, low) == IF Window(l, low) = {} THEN 9000 ELSE SetMax(Window(l, low))

\* After the preprocessing pass: a line is truncated exactly when it is longer
\* than 10000 characters; it is cut at the last space or tab of the positions
\* low..9000, or at 9000 when there is none, and ends with the ellipsis.
TruncationRule(low) ==
    Len(attempts) >= 2 =>
        \A i \in 1..Len(file.lines) :
            LET l == file.lines[i]
            IN  /\ Truncated(i) <=> l.len > 10000
                /\ l.len > 10000 =>
                      /\ content[i] = ExpandTabs(Ellipsis(Slice(l, CutAt(l, low))))
                      /\ Window(l, low) # {} =>
                            InSeq(Diag("Warning: Truncated long line", i, CutAt(l, low)), stderr)
                      /\ Window(l, low) = {} =>
                            InSeq(Diag("Warning: Hard truncated line", i, 0), stderr)
                /\ l.len <= 10000 => content[i] = ExpandTabs(l)

\* C9 (as stated): the window of the backward search is 8000..9000, both ends
\* included.
C9_Original == TruncationRule(8000)

\* C9 (amended): the window of the backward search is 8001..9000; a space or
\* tab at position 8000 is not a cut position.
C9_Truncation == TruncationRule(8001)

C9_Witness ==
    /\ Len(attempts) >= 2
    /\ file.lines[1].len = 10001
    /\ file.lines[1].sp = {8000, 8500}
    /\ content[1].len = 8503
    /\ content[1].sp = {8000}

\* the marker lines that close a segment: a marker closes the segment in
\* progress unless it is the first line or follows a closing marker
Closing(lines) ==
    LET closes[i \in 1..Len(lines)] ==
            IsSeparator(lines[i]) /\ i > 1 /\ ~closes[i - 1]
    IN  {i \in 1..Len(lines) : closes[i]}

Starts(lines) == {i \in {1} \cup {c + 1 : c \in Closing(lines)} : i <= Len(lines)}

Kth(S, k) == CHOOSE x \in S : Cardinality({y \in S : y < x}) = k - 1

\* the segment that starts at line s
SegmentAt(lines, s) ==
    LET later == {c \in Closing(lines) : c > s}
    IN  SubSeq(lines, s, IF later = {} THEN Len(lines) ELSE SetMin(later) - 1)

\* the segments that load to a document other than None
ValidDocs == {k \in 1..Len(yaml_docs) : safe_load(yaml_docs[k]).ok
                                         /\ safe_load(yaml_docs[k]).doc # None}

\* the text is split only when it has 100 lines or more
SplitOnlyLargeTexts ==
    Len(attempts) = 3 => (Len(content) < 100 => yaml_docs = <<>>)

\* with more than one segment the strategy yields the first segment that loads
\* to a document other than None; it fails otherwise
FirstValidSegment ==
    (Len(attempts) = 3 /\ Len(content) >= 100) =>
        IF Len(yaml_docs) > 1 /\ ValidDocs # {}
        THEN /\ attempts[3].ok
             /\ data = safe_load(yaml_docs[SetMin(ValidDocs)]).doc
        ELSE ~attempts[3].ok /\ data = None

====
